---- MODULE Spec2Model ----
(***************************************************************************)
(* A model of nasa_power_query.py: the NasaPowerCities class (names        *)
(* validation, get_geocoding_details, fetch_climatology) and the           *)
(* get_nasapower_params function.  External collaborators (the geocoder,   *)
(* the HTTP endpoint, the browser) are inputs chosen by the environment.   *)
(***************************************************************************)
EXTENDS Integers, Sequences, FiniteSets, TLC

VARIABLES
    names,          \* self._names: the list's elements, Python values
    addresses,      \* self._addresses: None or a list
    coordinates,    \* self._coordinates: None or a dict
    geodetails,     \* self._geodetails: None or a dict
    climatologies,  \* self._climatologies: None or a dict
    call,           \* the last operation called and its arguments
    error,          \* the exception that call raised to its caller, or "none"
    geocodes,       \* the geocoder lookups made by the last get_geocoding_details
    requests,       \* the HTTP requests issued by the last fetch_climatology
    pc,             \* get_nasapower_params: the position in the function
    driver,         \* get_nasapower_params: the browser session
    page,           \* get_nasapower_params: what the browser will meet
    power_param_dict \* get_nasapower_params: the local of that name

vars == <<names, addresses, coordinates, geodetails, climatologies, call, error,
          geocodes, requests, pc, driver, page, power_param_dict>>

cityVars == <<names, addresses, coordinates, geodetails, climatologies, call,
              error, geocodes, requests>>

catalogVars == <<pc, driver, page, power_param_dict>>

(***************************************************************************)
(* Bounds of the model.                                                    *)
(***************************************************************************)
MaxNames == 2

MaxOptions == 3

NameStrings == {"Paris", "Tokyo"}

(***************************************************************************)
(* Python values.  Every value is a record of the same shape, so that      *)
(* values of different Python types can be compared.  A float is held in   *)
(* tenths.                                                                 *)
(***************************************************************************)
PyStr(s) == [kind |-> "str", str |-> s, num |-> 0, items |-> <<>>]

PyInt(n) == [kind |-> "int", str |-> "", num |-> n, items |-> <<>>]

PyFloat(tenths) == [kind |-> "float", str |-> "", num |-> tenths, items |-> <<>>]

PyNone == [kind |-> "NoneType", str |-> "", num |-> 0, items |-> <<>>]

PyDict == [kind |-> "dict", str |-> "", num |-> 0, items |-> <<>>]

PyList(xs) == [kind |-> "list", str |-> "", num |-> 0, items |-> xs]

PyTuple(xs) == [kind |-> "tuple", str |-> "", num |-> 0, items |-> xs]

\* isinstance(v, str), isinstance(v, list)
IsStr(v) == v.kind = "str"

IsList(v) == v.kind = "list"

\* An attribute that is None, or holds v.
None == [isNone |-> TRUE, v |-> <<>>]

Some(v) == [isNone |-> FALSE, v |-> v]

EmptyDict == <<>>

Keys(d) == DOMAIN d

\* d[k] = v
DictSet(d, k, v) == (k :> v) @@ d

SeqsUpTo(S, n) == UNION {[1..k -> S] : k \in 0..n}

\* A call's outcome: the value returned, or the exception raised.
Return(v) == [raised |-> "none", value |-> v]

Raise(e) == [raised |-> e, value |-> PyNone]

(***************************************************************************)
(* NasaPowerCities._validate_names                                         *)
(***************************************************************************)
AllStr(xs) == \A i \in DOMAIN xs : IsStr(xs[i])

\* The test of the elements, line 120; and no test of them.
AnyElement(xs) == TRUE

ElementsAreStrings(xs) == AllStr(xs)

_validate_names(value) ==
    LET as_list == IF IsStr(value) THEN PyList(<<value>>) ELSE value
    IN  IF ~IsList(as_list) THEN Raise("TypeError")
        ELSE IF ~ElementsAreStrings(as_list.items) THEN Raise("TypeError")
        ELSE Return(as_list)

\* The values a caller may pass as names.
NameElements == {PyStr(s) : s \in NameStrings} \cup {PyInt(7)}

NamesArguments ==
    {PyStr(s) : s \in NameStrings}
    \cup {PyInt(7), PyFloat(15), PyDict, PyNone}
    \cup {PyList(xs) : xs \in SeqsUpTo(NameElements, MaxNames)}
    \cup {PyTuple(<<PyStr("Paris")>>)}

(***************************************************************************)
(* NasaPowerCities.__init__ and the names setter                           *)
(***************************************************************************)
\* nasa_cities = NasaPowerCities(value): a failed construction raises and
\* leaves the caller with the object it had.
Construct(value) ==
    LET r == _validate_names(value)
    IN  /\ call' = [op |-> "__init__", args |-> value]
        /\ error' = r.raised
        /\ IF r.raised = "none"
           THEN /\ names' = r.value.items
                /\ addresses' = None
                /\ coordinates' = None
                /\ geodetails' = None
                /\ climatologies' = None
           ELSE UNCHANGED <<names, addresses, coordinates, geodetails, climatologies>>
        /\ geocodes' = <<>>
        /\ requests' = <<>>
        /\ UNCHANGED catalogVars

\* nasa_cities.names = value
SetNames(value) ==
    LET r == _validate_names(value)
    IN  /\ call' = [op |-> "names.setter", args |-> value]
        /\ error' = r.raised
        /\ names' = IF r.raised = "none" THEN r.value.items ELSE names
        /\ UNCHANGED <<addresses, coordinates, geodetails, climatologies>>
        /\ geocodes' = <<>>
        /\ requests' = <<>>
        /\ UNCHANGED catalogVars

(***************************************************************************)
(* The geocoding provider: what geocode(city_name) answers when it finds   *)
(* the place.  Latitudes and longitudes are whole degrees.                 *)
(***************************************************************************)
Gazetteer ==
    "Paris" :> [address |-> "Paris, France", latitude |-> 49, longitude |-> 2]
    @@ "Tokyo" :> [address |-> "Tokyo, Japan", latitude |-> 36, longitude |-> 140]

NoPlace == [address |-> "", latitude |-> 0, longitude |-> 0]

GeocodeOutcomes == {"found", "no_match", "raises"}

\* The local variable location: unbound, None, or a Location.
Unbound == [bound |-> FALSE, isNone |-> FALSE, loc |-> NoPlace]

BoundNone == [bound |-> TRUE, isNone |-> TRUE, loc |-> NoPlace]

BoundTo(l) == [bound |-> TRUE, isNone |-> FALSE, loc |-> l]

\* location = geocode(city_name) inside try/except Exception: an exception
\* is printed and leaves location as it was.
TryGeocode(location, city_name, outcome) ==
    CASE outcome = "raises" -> location
      [] outcome = "no_match" -> BoundNone
      [] OTHER -> BoundTo(IF city_name \in DOMAIN Gazetteer
                          THEN Gazetteer[city_name] ELSE NoPlace)

\* The key under which the loop stores a location, the name looked up; and
\* the address found as the key.
AddressKey(city_name, loc) == loc.address

StoreKey(city_name, loc) == city_name

\* One pass of the loop body for names[i], lines 150-166.
GeocodeStep(st, city_name, outcome) ==
    LET location == TryGeocode(st.location, city_name, outcome)
        logged == [st EXCEPT !.location = location,
                             !.log = Append(@, [query |-> city_name, outcome |-> outcome])]
    IN  IF ~location.bound
        THEN [logged EXCEPT !.raised = "UnboundLocalError"]
        ELSE IF location.isNone
        THEN logged
        ELSE LET key == StoreKey(city_name, location.loc)
             IN [logged EXCEPT
                  !.addresses = Append(@, location.loc.address),
                  !.coordinates_container =
                      DictSet(@, key, [latitude |-> location.loc.latitude,
                                       longitude |-> location.loc.longitude]),
                  !.geodetails_container =
                      DictSet(@, key, [display_name |-> location.loc.address])]

RECURSIVE GeocodeLoop(_, _, _, _)
GeocodeLoop(ns, outcomes, i, st) ==
    IF i > Len(ns) \/ st.raised # "none" THEN st
    ELSE GeocodeLoop(ns, outcomes, i + 1, GeocodeStep(st, ns[i].str, outcomes[i]))

GeocodeStart ==
    [location |-> Unbound, addresses |-> <<>>, coordinates_container |-> EmptyDict,
     geodetails_container |-> EmptyDict, log |-> <<>>, raised |-> "none"]

\* nasa_cities.get_geocoding_details(): outcomes[i] is what the provider does
\* with the lookup of names[i].
get_geocoding_details(outcomes) ==
    LET r == GeocodeLoop(names, outcomes, 1, GeocodeStart)
    IN  /\ call' = [op |-> "get_geocoding_details", args |-> PyNone]
        /\ error' = r.raised
        /\ geocodes' = r.log
        /\ IF r.raised = "none"
           THEN /\ addresses' = Some(r.addresses)
                /\ coordinates' = Some(r.coordinates_container)
                /\ geodetails' = Some(r.geodetails_container)
           ELSE UNCHANGED <<addresses, coordinates, geodetails>>
        /\ requests' = <<>>
        /\ UNCHANGED <<names, climatologies>>
        /\ UNCHANGED catalogVars

(***************************************************************************)
(* NasaPowerCities.fetch_climatology                                       *)
(***************************************************************************)
MaxClimateParams == 20

\* int(v) as Python computes it: an int is itself, a float is cut towards
\* zero, a str is read as a decimal literal, anything else is refused.
IntLiterals == "2016" :> 2016 @@ "2014" :> 2014

IntCoercible(v) ==
    \/ v.kind \in {"int", "float"}
    \/ v.kind = "str" /\ v.str \in DOMAIN IntLiterals

IntOf(v) ==
    CASE v.kind = "int" -> v.num
      [] v.kind = "float" -> IF v.num >= 0 THEN v.num \div 10 ELSE -((-v.num) \div 10)
      [] OTHER -> IntLiterals[v.str]

\* ",".join(xs): the text, held as its pieces in order.
Join(sep, xs) ==
    [i \in 1..(2 * Len(xs) - 1) |-> IF i % 2 = 1 THEN xs[(i + 1) \div 2].str ELSE sep]

\* The test of community and format, line 204.
NeitherIsStr(community, format) == ~IsStr(community) /\ ~IsStr(format)

\* The test of the year range, lines 218-223, on start and end as coerced
\* (None stays None).
BadRange(start, end) ==
    \/ start = PyNone /\ end # PyNone
    \/ start # PyNone /\ end = PyNone
    \/ start # PyNone /\ end # PyNone /\ start.num > end.num

\* The test of the number of parameters, line 201; and the same test one
\* too lenient.
TooManyOffByOne(climate_params) == Len(climate_params.items) > MaxClimateParams + 1

TooMany(climate_params) == Len(climate_params.items) > MaxClimateParams

\* Lines 198-223: the exception the validation raises, or "none" with start
\* and end coerced.
ValidateFetch(a) ==
    IF ~IsList(a.climate_params) THEN Raise("TypeError")
    ELSE IF TooMany(a.climate_params) THEN Raise("ValueError")
    ELSE IF NeitherIsStr(a.community, a.format) THEN Raise("TypeError")
    ELSE IF a.start # PyNone /\ ~IntCoercible(a.start) THEN Raise("TypeError")
    ELSE IF a.end # PyNone /\ ~IntCoercible(a.end) THEN Raise("TypeError")
    ELSE LET start == IF a.start = PyNone THEN PyNone ELSE PyInt(IntOf(a.start))
             end == IF a.end = PyNone THEN PyNone ELSE PyInt(IntOf(a.end))
         IN  IF BadRange(start, end) THEN Raise("ValueError")
             ELSE [raised |-> "none", value |-> PyNone, start |-> start, end |-> end]

\* Lines 226-235: base_params, without start and end when both are None.
BaseParams(a, start, end) ==
    LET common == "parameters" :> Join(",", a.climate_params.items)
                  @@ "community" :> a.community
                  @@ "format" :> a.format
    IN  IF start = PyNone /\ end = PyNone THEN common
        ELSE common @@ "start" :> start.num @@ "end" :> end.num

\* Lines 254-259: the loop writes each resolved city's latitude and longitude
\* into the one base_params dict.
RECURSIVE WithCoordinates(_, _, _, _)
WithCoordinates(base_params, ns, coords, i) ==
    IF i > Len(ns) THEN base_params
    ELSE LET city == ns[i].str
         IN  WithCoordinates(
                 IF city \in Keys(coords)
                 THEN DictSet(DictSet(base_params, "latitude", coords[city].latitude),
                              "longitude", coords[city].longitude)
                 ELSE base_params,
                 ns, coords, i + 1)

\* The keys of params_cities in the order a dict keeps them: every name of
\* names, at its first occurrence (line 261 runs for every city).
RECURSIVE KeyOrder(_, _)
KeyOrder(ns, i) ==
    IF i > Len(ns) THEN <<>>
    ELSE IF \E j \in 1..(i - 1) : ns[j] = ns[i] THEN KeyOrder(ns, i + 1)
    ELSE <<ns[i].str>> \o KeyOrder(ns, i + 1)

\* params_cities[city]: every key holds the same base_params object, so each
\* reads the dict as the loop left it.
ParamsOf(base_params, coords, city) == base_params

(***************************************************************************)
(* The HTTP endpoint: what happens to one GET.                             *)
(*   ok          a response whose body parses as JSON                      *)
(*   bad_json    a response whose body does not parse                      *)
(*   http_error  a response with an error status (raise_for_status raises) *)
(*               whose body parses as JSON                                 *)
(*   no_response requests.get raises a RequestException                    *)
(***************************************************************************)
HttpOutcomes == {"ok", "bad_json", "http_error", "no_response"}

NoResp == [bound |-> FALSE, answers |-> "", parses |-> FALSE]

NoData == [bound |-> FALSE, kind |-> "", answers |-> ""]

\* Lines 268-273: resp after the first try block.
TryGet(resp, city, outcome) ==
    IF outcome = "no_response" THEN resp
    ELSE [bound |-> TRUE, answers |-> city, parses |-> outcome # "bad_json"]

\* Lines 267-283 for one city.
RequestStep(st, city, params, format, outcome) ==
    LET resp == TryGet(st.resp, city, outcome)
        logged == [st EXCEPT !.resp = resp,
                             !.log = Append(@, [city |-> city, params |-> params,
                                                outcome |-> outcome])]
        unbound == [logged EXCEPT !.raised = "UnboundLocalError"]
        stored(data) == [logged EXCEPT !.data = data,
                                       !.climatologies = DictSet(@, city, data)]
    IN  IF format = PyStr("JSON")
        THEN LET data == IF resp.bound /\ resp.parses
                         THEN [bound |-> TRUE, kind |-> "json", answers |-> resp.answers]
                         ELSE st.data
             IN  IF ~data.bound THEN unbound ELSE stored(data)
        ELSE IF ~resp.bound THEN unbound
             ELSE stored([bound |-> TRUE, kind |-> "bytes", answers |-> resp.answers])

RECURSIVE RequestLoop(_, _, _, _, _, _, _)
RequestLoop(order, base_params, coords, format, outcomes, i, st) ==
    IF i > Len(order) \/ st.raised # "none" THEN st
    ELSE RequestLoop(order, base_params, coords, format, outcomes, i + 1,
                     RequestStep(st, order[i], ParamsOf(base_params, coords, order[i]),
                                 format, outcomes[i]))

RequestStart ==
    [resp |-> NoResp, data |-> NoData, climatologies |-> EmptyDict, log |-> <<>>,
     raised |-> "none"]

\* The check of self._coordinates, line 252; and a check that lets None pass
\* for an empty dict.
NoneAsEmpty(coords) == FALSE

CoordinatesMissing(coords) == coords.isNone

\* nasa_cities.fetch_climatology(**a): outcomes[i] is what happens to the
\* i-th GET.
fetch_climatology(a, outcomes) ==
    LET v == ValidateFetch(a)
        joinable == AllStr(a.climate_params.items)
        early == IF v.raised # "none" THEN v.raised
                 ELSE IF ~joinable THEN "TypeError"
                 ELSE IF CoordinatesMissing(coordinates) THEN "ValueError"
                 ELSE "none"
        base_params == WithCoordinates(BaseParams(a, v.start, v.end), names,
                                       coordinates.v, 1)
        r == RequestLoop(KeyOrder(names, 1), base_params, coordinates.v, a.format,
                         outcomes, 1, RequestStart)
    IN  /\ call' = [op |-> "fetch_climatology", args |-> a]
        /\ IF early # "none"
           THEN /\ error' = early
                /\ requests' = <<>>
                /\ UNCHANGED climatologies
           ELSE /\ error' = r.raised
                /\ requests' = r.log
                /\ climatologies' = IF r.raised = "none" THEN Some(r.climatologies)
                                    ELSE climatologies
        /\ geocodes' = <<>>
        /\ UNCHANGED <<names, addresses, coordinates, geodetails>>
        /\ UNCHANGED catalogVars

(***************************************************************************)
(* get_nasapower_params, one step per statement that can fail.             *)
(***************************************************************************)
\* float(v)
FloatCoercible(v) == IntCoercible(v)

Placeholder == "Select a parameter..."

\* The options the select element may expose: value and visible text.
OptionKinds ==
    {[value |-> "", text |-> Placeholder],
     [value |-> "T2M", text |-> "Temperature at 2 Meters"],
     [value |-> "", text |-> "Untitled"],
     [value |-> "PS", text |-> Placeholder]}

\* What the browser will meet: whether the element appears before the
\* timeout, whether find_element finds it, the options it exposes, and where
\* the driver itself fails (not at all, on start, on navigation).
Pages ==
    [present : BOOLEAN, found : BOOLEAN,
     options : SeqsUpTo(OptionKinds, MaxOptions),
     fault : {"none", "start", "navigate"}]

CatalogArguments ==
    [url : {PyStr("https://power.larc.nasa.gov/#resources"), PyInt(7)},
     webdriver_timeout : {PyInt(10), PyNone}]

UnboundDict == [bound |-> FALSE, d |-> EmptyDict]

\* Lines 331-337.
RECURSIVE ReadOptions(_, _, _)
ReadOptions(options, i, d) ==
    IF i > Len(options) THEN d
    ELSE LET short_name == options[i].value
             long_name == options[i].text
         IN  ReadOptions(options, i + 1,
                         IF short_name # "" /\ long_name # Placeholder
                         THEN DictSet(d, short_name, long_name) ELSE d)

\* Where control goes when an except clause has handled the exception: the
\* finally clause; and the return statement, were finally left out.
SkipFinally == "return"

AfterHandler == "finally"

\* Lines 303-308.
CatalogCall(a, pg) ==
    /\ pc = "idle"
    /\ call' = [op |-> "get_nasapower_params", args |-> a]
    /\ page' = pg
    /\ driver' = "none"
    /\ power_param_dict' = UnboundDict
    /\ IF ~IsStr(a.url) \/ ~FloatCoercible(a.webdriver_timeout)
       THEN error' = "TypeError" /\ pc' = "raised"
       ELSE error' = "none" /\ pc' = "start"
    /\ UNCHANGED <<names, addresses, coordinates, geodetails, climatologies,
                   geocodes, requests>>

\* Line 312.
StartDriver ==
    /\ pc = "start"
    /\ IF page.fault = "start"
       THEN error' = "WebDriverException" /\ pc' = "raised" /\ UNCHANGED driver
       ELSE driver' = "open" /\ pc' = "navigate" /\ UNCHANGED error
    /\ UNCHANGED <<names, addresses, coordinates, geodetails, climatologies, call,
                   geocodes, requests, page, power_param_dict>>

\* Line 315: an exception no except clause names goes to finally and on.
Navigate ==
    /\ pc = "navigate"
    /\ IF page.fault = "navigate"
       THEN error' = "WebDriverException" /\ pc' = "finally"
       ELSE pc' = "wait_element" /\ UNCHANGED error
    /\ UNCHANGED <<names, addresses, coordinates, geodetails, climatologies, call,
                   geocodes, requests, driver, page, power_param_dict>>

\* Lines 317-319, and the TimeoutException handler.
WaitElement ==
    /\ pc = "wait_element"
    /\ pc' = IF page.present THEN "find" ELSE AfterHandler
    /\ UNCHANGED <<cityVars, driver, page, power_param_dict>>

\* Line 324, and the NoSuchElementException handler.
FindElement ==
    /\ pc = "find"
    /\ pc' = IF page.found THEN "wait_options" ELSE AfterHandler
    /\ UNCHANGED <<cityVars, driver, page, power_param_dict>>

\* Lines 327-329, and the TimeoutException handler.
WaitOptions ==
    /\ pc = "wait_options"
    /\ pc' = IF Len(page.options) > 2 THEN "read" ELSE AfterHandler
    /\ UNCHANGED <<cityVars, driver, page, power_param_dict>>

\* Lines 331-337.
ReadAll ==
    /\ pc = "read"
    /\ power_param_dict' = [bound |-> TRUE, d |-> ReadOptions(page.options, 1, EmptyDict)]
    /\ pc' = "finally"
    /\ UNCHANGED <<cityVars, driver, page>>

\* Lines 343-344.
Finally ==
    /\ pc = "finally"
    /\ driver' = "quit"
    /\ pc' = IF error # "none" THEN "raised" ELSE "return"
    /\ UNCHANGED <<cityVars, page, power_param_dict>>

\* Line 346.
ReturnDict ==
    /\ pc = "return"
    /\ IF power_param_dict.bound
       THEN pc' = "returned" /\ UNCHANGED error
       ELSE pc' = "raised" /\ error' = "UnboundLocalError"
    /\ UNCHANGED <<names, addresses, coordinates, geodetails, climatologies, call,
                   geocodes, requests, driver, page, power_param_dict>>

NoPage == [present |-> FALSE, found |-> FALSE, options |-> <<>>, fault |-> "none"]

\* The call is over: its frame, with driver and power_param_dict, is gone.
Discard ==
    /\ pc \in {"returned", "raised"}
    /\ pc' = "idle"
    /\ driver' = "none"
    /\ page' = NoPage
    /\ power_param_dict' = UnboundDict
    /\ UNCHANGED cityVars

(***************************************************************************)
(* The arguments a caller may give to fetch_climatology.                   *)
(***************************************************************************)
Repeat(x, n) == [i \in 1..n |-> x]

Years == {PyNone, PyInt(2015), PyInt(2018), PyStr("2016"), PyStr("abc"), PyFloat(20155)}

\* A well-typed call, as example.py makes it.
PlainFetchArguments ==
    [climate_params : {PyList(<<PyStr("T2M")>>)},
     community : {PyStr("SB")},
     format : {PyStr("JSON"), PyStr("CSV")},
     start : {PyNone},
     end : {PyNone}]
    \cup
    [climate_params : {PyList(<<PyStr("T2M"), PyStr("PS")>>)},
     community : {PyStr("SB")},
     format : {PyStr("JSON")},
     start : {PyInt(2015)},
     end : {PyInt(2018)}]

\* Calls of every shape the validation tells apart.
FetchArguments ==
    [climate_params : {PyList(<<PyStr("T2M")>>),
                       PyList(Repeat(PyStr("T2M"), MaxClimateParams)),
                       PyList(Repeat(PyStr("T2M"), MaxClimateParams + 1)),
                       PyList(<<PyInt(7)>>),
                       PyTuple(<<PyStr("T2M")>>)},
     community : {PyStr("SB"), PyInt(1)},
     format : {PyStr("JSON"), PyNone},
     start : Years,
     end : Years]

(***************************************************************************)
(* Specifications                                                          *)
(***************************************************************************)
\* nasa_cities = NasaPowerCities(value), with no browser session.
Init ==
    /\ \E value \in NamesArguments :
         /\ _validate_names(value).raised = "none"
         /\ names = _validate_names(value).value.items
         /\ call = [op |-> "__init__", args |-> value]
    /\ addresses = None
    /\ coordinates = None
    /\ geodetails = None
    /\ climatologies = None
    /\ error = "none"
    /\ geocodes = <<>>
    /\ requests = <<>>
    /\ pc = "idle"
    /\ driver = "none"
    /\ page = NoPage
    /\ power_param_dict = UnboundDict

DoConstruct == \E value \in NamesArguments : Construct(value)

DoSetNames == \E value \in NamesArguments : SetNames(value)

DoGeocode ==
    \E outcomes \in [1..Len(names) -> GeocodeOutcomes] : get_geocoding_details(outcomes)

DoFetch ==
    \E a \in PlainFetchArguments :
        \E outcomes \in [1..Len(KeyOrder(names, 1)) -> HttpOutcomes] :
            fetch_climatology(a, outcomes)

\* The calls of example.py in their order: geocoding once after the
\* construction, then one fetch, here with arguments of every shape.
DoGeocodeOnce == call.op = "__init__" /\ DoGeocode

DoValidatedFetch ==
    /\ call.op # "fetch_climatology"
    /\ \E a \in FetchArguments :
         fetch_climatology(a, [i \in 1..Len(KeyOrder(names, 1)) |-> "ok"])

DoCatalogCall == \E a \in CatalogArguments : \E pg \in Pages : CatalogCall(a, pg)

\* The class in use after construction: geocoding and fetches in any order.
Next == DoGeocode \/ DoFetch

Spec == Init /\ [][Next]_vars

\* Construction and replacement of names.
NamesNext == DoConstruct \/ DoSetNames

NamesSpec == Init /\ [][NamesNext]_vars

\* Replacement of names and geocoding in any order.
GeoNext == DoSetNames \/ DoGeocode

GeoSpec == Init /\ [][GeoNext]_vars

\* fetch_climatology called with arguments of every shape.
ValidationNext == DoGeocodeOnce \/ DoValidatedFetch

ValidationSpec == Init /\ [][ValidationNext]_vars

\* get_nasapower_params, called again and again.
CatalogInit == Init /\ names = <<PyStr("Paris")>> /\ call.args = PyStr("Paris")

CatalogNext ==
    \/ DoCatalogCall
    \/ StartDriver
    \/ Navigate
    \/ WaitElement
    \/ FindElement
    \/ WaitOptions
    \/ ReadAll
    \/ Finally
    \/ ReturnDict
    \/ Discard

CatalogSpec == CatalogInit /\ [][CatalogNext]_vars

(***************************************************************************)
(* Properties                                                              *)
(***************************************************************************)
NameSet == {names[i].str : i \in DOMAIN names}

FoundAt == {i \in DOMAIN geocodes : geocodes[i].outcome = "found"}

\* C1: after get_geocoding_details, whatever the position of a name whose
\* lookup raised or found no match, no exception has reached the caller,
\* every name has been looked up, and addresses, coordinates and geodetails
\* hold entries for the names that were found and for no other.
C1_FailedLookupsAreSkipped ==
    call.op = "get_geocoding_details" =>
        /\ error = "none"
        /\ Len(geocodes) = Len(names)
        /\ Keys(coordinates.v) = {geocodes[i].query : i \in FoundAt}
        /\ Keys(geodetails.v) = {geocodes[i].query : i \in FoundAt}
        /\ Len(addresses.v) = Cardinality(FoundAt)

\* C2: a fetch issues no request for a name that is absent from coordinates
\* and stores no entry for it: every request is for a key of coordinates,
\* and when the fetch returns there is one request per name present in
\* coordinates and the keys of climatologies are keys of coordinates.
C2_UnresolvedNamesAreSkipped ==
    (call.op = "fetch_climatology" /\ ~coordinates.isNone) =>
        /\ \A i \in DOMAIN requests : requests[i].city \in Keys(coordinates.v)
        /\ error = "none" =>
             /\ Len(requests) = Cardinality(NameSet \cap Keys(coordinates.v))
             /\ Keys(climatologies.v) \subseteq Keys(coordinates.v)

\* C3: the request issued for a name that is in coordinates carries that
\* name's own latitude and longitude.
C3_RequestCarriesOwnCoordinates ==
    call.op = "fetch_climatology" =>
        \A i \in DOMAIN requests :
            LET city == requests[i].city
                params == requests[i].params
            IN  city \in Keys(coordinates.v) =>
                    /\ {"latitude", "longitude"} \subseteq DOMAIN params
                    /\ params["latitude"] = coordinates.v[city].latitude
                    /\ params["longitude"] = coordinates.v[city].longitude

FailedRequest(rq) ==
    \/ rq.outcome = "no_response"
    \/ rq.outcome = "bad_json" /\ rq.params["format"] = PyStr("JSON")

\* C4: when the request for a name gets no response, or (format "JSON") its
\* body does not parse, no exception reaches the caller, every following
\* name is still requested, and climatologies has no entry for that name.
C4_FailedRequestLeavesNoEntry ==
    call.op = "fetch_climatology" =>
        \A i \in DOMAIN requests :
            FailedRequest(requests[i]) =>
                /\ error = "none"
                /\ Len(requests) = Len(KeyOrder(names, 1))
                /\ requests[i].city \notin Keys(climatologies.v)

\* C5: a fetch with more than 20 climate_params, or with exactly one of
\* start and end, or with both and start after end (as integers), raises an
\* error and issues no request.
C5_BadCountOrRangeFailsBeforeAnyRequest ==
    call.op = "fetch_climatology" =>
        LET a == call.args
        IN  (\/ Len(a.climate_params.items) > MaxClimateParams
             \/ (a.start = PyNone) # (a.end = PyNone)
             \/ /\ a.start # PyNone /\ a.end # PyNone
                /\ IntCoercible(a.start) /\ IntCoercible(a.end)
                /\ IntOf(a.start) > IntOf(a.end))
            => (error # "none" /\ requests = <<>>)

\* C5, reached: 21 parameters given to an object whose names are resolved,
\* with everything else well formed.
C5_Witness ==
    /\ call.op = "fetch_climatology"
    /\ Len(call.args.climate_params.items) = MaxClimateParams + 1
    /\ IsList(call.args.climate_params)
    /\ IsStr(call.args.community) /\ IsStr(call.args.format)
    /\ call.args.start = PyNone /\ call.args.end = PyNone
    /\ ~coordinates.isNone /\ NameSet # {} /\ NameSet \subseteq Keys(coordinates.v)
    /\ error = "ValueError"
    /\ requests = <<>>

\* C6 as stated: a fetch on an object whose coordinates are unset or empty
\* raises an error and issues no request.
C6_FetchNeedsNonEmptyCoordinates ==
    (call.op = "fetch_climatology" /\ (coordinates.isNone \/ Keys(coordinates.v) = {})) =>
        (error # "none" /\ requests = <<>>)

\* C6 as amended: a fetch on an object whose coordinates are unset raises
\* ValueError and issues no request; once coordinates are set, empty or not,
\* a fetch with well-formed arguments is not refused.
C6_FetchNeedsCoordinatesSet ==
    call.op = "fetch_climatology" =>
        IF coordinates.isNone
        THEN error = "ValueError" /\ requests = <<>>
        ELSE error \notin {"ValueError", "TypeError"}

\* C6, reached: a fetch on an object with names and no geocoding yet.
C6_Witness ==
    /\ call.op = "fetch_climatology"
    /\ coordinates.isNone
    /\ Len(names) = 2
    /\ error = "ValueError"
    /\ requests = <<>>

\* C7: a fetch whose community is not a string, or whose format is not a
\* string, raises an error and issues no request.
C7_NonStringCommunityOrFormatFails ==
    call.op = "fetch_climatology" =>
        ((~IsStr(call.args.community) \/ ~IsStr(call.args.format))
            => (error # "none" /\ requests = <<>>))

\* C8 as stated: in every state the keys of coordinates and of geodetails
\* are among the current names.
C8_KeysAreCurrentNames ==
    /\ Keys(coordinates.v) \subseteq NameSet
    /\ Keys(geodetails.v) \subseteq NameSet

\* C8 as amended: whenever get_geocoding_details stores its results the keys
\* of coordinates and of geodetails are among the names of that moment, and
\* every other step, a replacement of names included, leaves coordinates and
\* geodetails as they were.
C8_KeysAreNamesWhenStored ==
    [][ IF call'.op = "get_geocoding_details" /\ error' = "none"
        THEN /\ ~coordinates'.isNone /\ ~geodetails'.isNone
             /\ Keys(coordinates'.v) \subseteq NameSet'
             /\ Keys(geodetails'.v) \subseteq NameSet'
        ELSE /\ coordinates' = coordinates
             /\ geodetails' = geodetails ]_vars

\* C8, reached: names replaced after a geocoding that stored an entry, and
\* the entry's key is no longer a name.
C8_Witness ==
    /\ call.op = "names.setter"
    /\ error = "none"
    /\ ~coordinates.isNone
    /\ Keys(coordinates.v) # {}
    /\ ~(Keys(coordinates.v) \subseteq NameSet)

\* C9: names is always a sequence of strings; a construction or replacement
\* given a string X stores <<X>>, given a list of strings stores it as it
\* is, and given a number, a mapping or a list with a non-string element
\* fails with TypeError and leaves names as they were.
C9_NamesAreValidatedStrings ==
    /\ [](\A i \in DOMAIN names : IsStr(names[i]))
    /\ [][ call'.op \in {"__init__", "names.setter"} =>
             LET x == call'.args
             IN  /\ IsStr(x) => (error' = "none" /\ names' = <<x>>)
                 /\ (IsList(x) /\ AllStr(x.items)) =>
                        (error' = "none" /\ names' = x.items)
                 /\ (x.kind \in {"int", "float", "dict"} \/ (IsList(x) /\ ~AllStr(x.items)))
                        => (error' = "TypeError" /\ names' = names) ]_vars

\* C9, reached: a replacement by a list holding a non-string was refused and
\* the names stored before are still there.
C9_Witness ==
    /\ call.op = "names.setter"
    /\ IsList(call.args) /\ ~AllStr(call.args.items)
    /\ error = "TypeError"
    /\ names = <<PyStr("Paris"), PyStr("Tokyo")>>

\* C10: when get_nasapower_params ends, by return or by exception, the
\* browser session is not open: it was quit, or it was never started (the
\* arguments were refused, or the driver failed to start).
C10_SessionReleasedAtExit ==
    pc \in {"return", "returned", "raised"} =>
        /\ driver # "open"
        /\ driver = "none" =>
             (page.fault = "start" \/ ~IsStr(call.args.url)
              \/ ~FloatCoercible(call.args.webdriver_timeout))

\* C10, reached: the wait for the element timed out, the session was quit,
\* and the call ended.
C10_Witness ==
    /\ pc = "raised"
    /\ page.fault = "none" /\ ~page.present
    /\ driver = "quit"

====
